---- MODULE Spec2Model ----
(***************************************************************************)
(* SAMPQuery: a client for the SA-MP UDP query interface.                  *)
(*                                                                         *)
(* The repository holds two revisions of the one module:                   *)
(*   "index"    = src/src/index.ts      (methods getInfo, getRules, ping)  *)
(*   "part_000" = src/unnamed/part_000  (adds getClientList and            *)
(*                getDetailedClientList, Math.trunc and the attempts check) *)
(* The variable `revision` says which of the two a behaviour runs.         *)
(*                                                                         *)
(* A step is what runs between two awaits of the async code.               *)
(*   Spec        one constructed client and one public call on it          *)
(*   SpecRequest the same, for the request datagrams of more ports,        *)
(*               addresses and ping payloads                               *)
(*   FairSpec    the same, with every transport attempt ending             *)
(*   SpecTwo     one client and two calls on it, interleaved               *)
(***************************************************************************)
EXTENDS Integers, Sequences, FiniteSets, TLC

VARIABLES
    revision,   \* which source file runs
    args,       \* the arguments of `new SAMPQuery(address, port, defaultOptions)`
    thrown,     \* what the constructor threw, NoError when it returned
    hostname,   \* this.address, set by the constructor (a parameter property)
    port,       \* this.port, set by the constructor
    defaults,   \* this.defaults, set by the constructor
    method,     \* the public method called ("none" before the call)
    callOptions,\* the options object the caller passed to the public method
    options,    \* the options object #query and #sendPayload receive
    nonce,      \* ping: Crypto.randomBytes(4); <<>> for the other methods
    pc,         \* "idle" | "lookup" (await DNS) | "race" (await Promise.race) | "done"
    address,    \* the address DNS.promises.lookup resolved, "" before
    attempts,   \* #query: `attempts`
    remaining,  \* #query: `remaining` (part_000 only)
    errors,     \* #query: `errors` (index only)
    socket,     \* #sendPayload: the attempt's socket: "none" | "open" | "closed"
    aborter,    \* #sendPayload: the attempt's AbortController / timer:
                \*   "none" | "armed" | "aborted"
    timerMs,    \* the delay given to Timers.setTimeout for the current attempt
    received,   \* the datagrams the 'message' event delivered to #sendPayload
    netlog,     \* the I/O the call has done so far, in order
    datagrams,  \* the datagrams socket.send was given, in order
    unrecorded, \* the attempts made beyond MaxSends, which the logs do not
                \* record: their number modulo 2
    outcomes,   \* how each finished transport attempt ended, in order
    result,     \* the promise the public method returned
    calls,      \* two calls on the one client: for each its own locals
    dropped     \* two calls: the sockets a datagram reached after their close

vars == << revision, args, thrown, hostname, port, defaults, method, callOptions, options,
           nonce, pc, address, attempts, remaining, errors, socket, aborter,
           timerMs, received, netlog, datagrams, unrecorded, outcomes, result,
           calls, dropped >>

----------------------------------------------------------------------------
(* Bounds of the model.                                                    *)

\* The largest attempts value a caller passes.
MaxAttempts == 3

\* The most attempts of one call the model records (a call whose attempt
\* count is NaN retries for ever: of the attempts beyond this bound the
\* model keeps only how many there were, modulo 2).
MaxSends == 5

----------------------------------------------------------------------------
(* JavaScript numbers, as far as the options need them.  A number is kept  *)
(* in halves, so that 0.5 and 1.5 exist: h = 3 is the number 1.5.          *)

Undefined == [tag |-> "undefined", h |-> 0]
NaN       == [tag |-> "nan", h |-> 0]
Half(h)   == [tag |-> "num", h |-> h]
Num(n)    == [tag |-> "num", h |-> 2 * n]

IsInteger(x) == x.tag = "num" /\ x.h % 2 = 0
IsPositiveInteger(x) == IsInteger(x) /\ x.h >= 2
IntOf(x) == x.h \div 2

\* a ?? b
Nullish(a, b) == IF a.tag = "undefined" THEN b ELSE a

\* Math.trunc(x): toward zero; NaN stays NaN
MathTrunc(x) ==
    IF x.tag # "num" THEN NaN
    ELSE IF x.h >= 0 THEN Num(x.h \div 2) ELSE Num(-((-x.h) \div 2))

\* x < 1, x <= 0, x > 1: every comparison with NaN is false
LessThanOne(x) == x.tag = "num" /\ x.h < 2
BelowZero(x) == x.tag = "num" /\ x.h < 0
AtMostOne(x) == x.tag = "num" /\ x.h <= 2
AtMostZero(x) == x.tag = "num" /\ x.h <= 0
MoreThanOne(x) == x.tag = "num" /\ x.h > 2

\* --x
Decrement(x) == IF x.tag = "num" THEN Half(x.h - 2) ELSE NaN

----------------------------------------------------------------------------
(* Errors and promise results.                                             *)

NoBuffer == << >>

InvalidMessageError(text, response) ==
    [kind |-> "InvalidMessageError", text |-> text, response |-> response,
     count |-> 0, errors |-> << >>]

\* The per-attempt timeout: new TimeoutError(elapsed)
TimeoutError ==
    [kind |-> "TimeoutError", text |-> "Query timed out after <elapsed>ms",
     response |-> NoBuffer, count |-> 1, errors |-> << >>]

\* index: new AggregateError(errors, `Query timed out after ${errors.length} attempts`)
AggregateError(errs) ==
    [kind |-> "AggregateError", text |-> "Query timed out after <count> attempts",
     response |-> NoBuffer, count |-> Len(errs), errors |-> errs]

\* part_000: new TimeoutError(`Query timed out after ${attempts} attempts`)
AttemptsTimeoutError(n) ==
    [kind |-> "TimeoutError", text |-> "Query timed out after <count> attempts",
     response |-> NoBuffer, count |-> IntOf(n), errors |-> << >>]

\* RangeError thrown by the attempts check of part_000
AttemptsRangeError ==
    [kind |-> "RangeError", text |-> "Expecting attempts to be a positive integer",
     response |-> NoBuffer, count |-> 0, errors |-> << >>]

\* RangeError thrown by the port check of the constructor
PortRangeError ==
    [kind |-> "RangeError", text |-> "Expecting port to be number between 1 and 65535",
     response |-> NoBuffer, count |-> 0, errors |-> << >>]

\* RangeError thrown by a Buffer read outside the buffer
BufferRangeError ==
    [kind |-> "RangeError", text |-> "ERR_OUT_OF_RANGE",
     response |-> NoBuffer, count |-> 0, errors |-> << >>]

\* What DNS.promises.lookup rejects with
LookupError ==
    [kind |-> "Error", text |-> "ENOTFOUND",
     response |-> NoBuffer, count |-> 0, errors |-> << >>]

\* What Events.once rejects with when the socket emits 'error'
SocketError ==
    [kind |-> "Error", text |-> "socket error",
     response |-> NoBuffer, count |-> 0, errors |-> << >>]

NoError == [kind |-> "none", text |-> "", response |-> NoBuffer,
            count |-> 0, errors |-> << >>]

\* An attempt that ended with a datagram that passed the header check
Received(message) ==
    [kind |-> "message", text |-> "", response |-> message,
     count |-> 0, errors |-> << >>]

Pending == [status |-> "pending", error |-> NoError, value |-> << >>]
Resolved(v) == [status |-> "resolved", error |-> NoError, value |-> v]
Rejected(e) == [status |-> "rejected", error |-> e, value |-> << >>]

----------------------------------------------------------------------------
(* Buffers.  A Buffer is a sequence of bytes 0..255; the code's offsets    *)
(* start at 0, the sequence's indices at 1.                                *)

\* 'i', 'r', 'c', 'd', 'p'
OpcodeI == 105
OpcodeR == 114
OpcodeC == 99
OpcodeD == 100
OpcodeP == 112

\* Buffer reads throw a RangeError unless offset..offset+size-1 lies in the buffer
InBuffer(buf, offset, size) == offset >= 0 /\ offset + size <= Len(buf)

readUInt8(buf, offset) == buf[offset + 1]

readInt8(buf, offset) ==
    IF buf[offset + 1] >= 128 THEN buf[offset + 1] - 256 ELSE buf[offset + 1]

readInt16LE(buf, offset) ==
    LET u == buf[offset + 1] + 256 * buf[offset + 2]
    IN  IF u >= 32768 THEN u - 65536 ELSE u

\* signed 32-bit little-endian; the top byte is taken signed first, so that
\* no intermediate value leaves the 32-bit range
readInt32LE(buf, offset) ==
    LET top == IF buf[offset + 4] >= 128 THEN buf[offset + 4] - 256 ELSE buf[offset + 4]
    IN  buf[offset + 1] + 256 * buf[offset + 2] + 65536 * buf[offset + 3]
        + 16777216 * top

\* readUInt32BE(0), as the pair of its 16-bit halves << high, low >>
readUInt32BE(buf) ==
    << 256 * buf[1] + buf[2], 256 * buf[3] + buf[4] >>

\* 0x53414d50 as the pair of its halves: 0x5341, 0x4d50
MagicHigh == 21313
MagicLow == 19792

\* buf.toString('latin1', start, end): start and end are clamped to the
\* buffer, an empty or inverted range gives ''.  A string is the sequence of
\* its character codes; latin1 maps byte b to the character U+00b.
toStringLatin1(buf, start, end) ==
    LET len == Len(buf)
        s == IF start <= 0 THEN 0 ELSE start
        e == IF end > len THEN len ELSE end
    IN  IF s >= len \/ e <= s THEN << >> ELSE SubSeq(buf, s + 1, e)

\* source.compare(target, targetStart): source against target[targetStart..],
\* -1, 0 or 1
RECURSIVE CompareFrom(_, _, _)
CompareFrom(a, b, k) ==
    IF k > Len(a) /\ k > Len(b) THEN 0
    ELSE IF k > Len(a) THEN -1
    ELSE IF k > Len(b) THEN 1
    ELSE IF a[k] < b[k] THEN -1
    ELSE IF a[k] > b[k] THEN 1
    ELSE CompareFrom(a, b, k + 1)

compareFourBytes(source, target, targetStart) ==
    LET end == IF targetStart + Len(source) > Len(target) THEN Len(target)
               ELSE targetStart + Len(source)
    IN  IF targetStart >= end THEN 1
        ELSE CompareFrom(source, SubSeq(target, targetStart + 1, end), 1)
compare(source, target, targetStart) ==
    IF targetStart >= Len(target) THEN 1
    ELSE CompareFrom(source, SubSeq(target, targetStart + 1, Len(target)), 1)

----------------------------------------------------------------------------
(* The public methods after `await this.#query(...)`: the opcode check and *)
(* the decoding of the response.  Each gives the promise's settled state.  *)

\* getInfo: the loop over servername, gamemode, language
RECURSIVE getInfoStrings(_, _, _, _)
getInfoStrings(message, offset, todo, strings) ==
    IF todo = 0 THEN Resolved(strings)
    ELSE IF ~InBuffer(message, offset, 4) THEN Rejected(BufferRangeError)
    ELSE LET length == readInt32LE(message, offset)
         IN  getInfoStrings(message, offset + 4 + length, todo - 1,
                 Append(strings,
                        toStringLatin1(message, offset + 4, offset + 4 + length)))

getInfoDecode(message) ==
    IF ~InBuffer(message, 10, 1) THEN Rejected(BufferRangeError)
    ELSE IF readUInt8(message, 10) # OpcodeI
    THEN Rejected(InvalidMessageError("Invalid opcode, not an info payload", message))
    ELSE IF ~InBuffer(message, 11, 1) \/ ~InBuffer(message, 12, 2)
            \/ ~InBuffer(message, 14, 2)
    THEN Rejected(BufferRangeError)
    ELSE LET strs == getInfoStrings(message, 16, 3, << >>)
         IN  IF strs.status = "rejected" THEN strs
             ELSE Resolved([password |-> readInt8(message, 11) # 0,
                            players |-> readInt16LE(message, 12),
                            maxplayers |-> readInt16LE(message, 14),
                            servername |-> strs.value[1],
                            gamemode |-> strs.value[2],
                            language |-> strs.value[3]])

\* The name "__proto__".  `result` is a plain object ({}), which inherits the
\* accessor Object.prototype.__proto__: assigning a string to that name
\* runs the setter, which ignores a value that is no object, and creates
\* no property.
ProtoName == << 95, 95, 112, 114, 111, 116, 111, 95, 95 >>

\* result[name] = value
SetRule(rules, name, value) ==
    IF name = ProtoName THEN rules
    ELSE [n \in (DOMAIN rules) \cup {name} |-> IF n = name THEN value ELSE rules[n]]

\* getRules: the loop `for (let i = 0; i < count; i++)`
RECURSIVE getRulesEntries(_, _, _, _)
getRulesEntries(message, offset, todo, rules) ==
    IF todo <= 0 THEN Resolved(rules)
    ELSE IF ~InBuffer(message, offset, 1) THEN Rejected(BufferRangeError)
    ELSE LET length == readUInt8(message, offset)
             name == toStringLatin1(message, offset + 1, offset + 1 + length)
             offset2 == offset + 1 + length
         IN  IF ~InBuffer(message, offset2, 1) THEN Rejected(BufferRangeError)
             ELSE LET length2 == readUInt8(message, offset2)
                      value == toStringLatin1(message, offset2 + 1,
                                              offset2 + 1 + length2)
                  IN  getRulesEntries(message, offset2 + 1 + length2, todo - 1,
                                      SetRule(rules, name, value))

getRulesDecodeUnchecked(message) ==
    IF ~InBuffer(message, 11, 2) THEN Rejected(BufferRangeError)
    ELSE getRulesEntries(message, 13, readInt16LE(message, 11), << >>)
getRulesDecode(message) ==
    IF ~InBuffer(message, 10, 1) THEN Rejected(BufferRangeError)
    ELSE IF readUInt8(message, 10) # OpcodeR
    THEN Rejected(InvalidMessageError("Invalid opcode, not a rules payload", message))
    ELSE IF ~InBuffer(message, 11, 2) THEN Rejected(BufferRangeError)
    ELSE getRulesEntries(message, 13, readInt16LE(message, 11), << >>)

\* getClientList: the loop over the clients
RECURSIVE getClientListEntries(_, _, _, _)
getClientListEntries(message, offset, todo, clients) ==
    IF todo <= 0 THEN Resolved(clients)
    ELSE IF ~InBuffer(message, offset, 1) THEN Rejected(BufferRangeError)
    ELSE LET length == readUInt8(message, offset)
             nick == toStringLatin1(message, offset + 1, offset + 1 + length)
             offset2 == offset + 1 + length
         IN  IF ~InBuffer(message, offset2, 4) THEN Rejected(BufferRangeError)
             ELSE getClientListEntries(message, offset2 + 4, todo - 1,
                      Append(clients, [nick |-> nick,
                                       score |-> readInt32LE(message, offset2)]))

getClientListDecode(message) ==
    IF ~InBuffer(message, 10, 1) THEN Rejected(BufferRangeError)
    ELSE IF readUInt8(message, 10) # OpcodeC
    THEN Rejected(InvalidMessageError("Invalid opcode, not a client list payload",
                                      message))
    ELSE IF ~InBuffer(message, 11, 2) THEN Rejected(BufferRangeError)
    ELSE getClientListEntries(message, 13, readInt16LE(message, 11), << >>)

\* getDetailedClientList: the loop over the clients
RECURSIVE getDetailedClientListEntries(_, _, _, _)
getDetailedClientListEntries(message, offset, todo, clients) ==
    IF todo <= 0 THEN Resolved(clients)
    ELSE IF ~InBuffer(message, offset, 1) \/ ~InBuffer(message, offset + 1, 1)
    THEN Rejected(BufferRangeError)
    ELSE LET id == readUInt8(message, offset)
             length == readUInt8(message, offset + 1)
             nick == toStringLatin1(message, offset + 2, offset + 2 + length)
             offset2 == offset + 2 + length
         IN  IF ~InBuffer(message, offset2, 4) \/ ~InBuffer(message, offset2 + 4, 4)
             THEN Rejected(BufferRangeError)
             ELSE getDetailedClientListEntries(message, offset2 + 8, todo - 1,
                      Append(clients, [id |-> id, nick |-> nick,
                                       score |-> readInt32LE(message, offset2),
                                       ping |-> readInt32LE(message, offset2 + 4)]))

getDetailedClientListDecode(message) ==
    IF ~InBuffer(message, 10, 1) THEN Rejected(BufferRangeError)
    ELSE IF readUInt8(message, 10) # OpcodeD
    THEN Rejected(InvalidMessageError(
             "Invalid opcode, not a detailed client list payload", message))
    ELSE IF ~InBuffer(message, 11, 2) THEN Rejected(BufferRangeError)
    ELSE getDetailedClientListEntries(message, 13, readInt16LE(message, 11), << >>)

\* ping: the opcode check and the comparison of the echoed payload
pingDecode(message, payload, time) ==
    IF ~InBuffer(message, 10, 1) THEN Rejected(BufferRangeError)
    ELSE IF readUInt8(message, 10) # OpcodeP
    THEN Rejected(InvalidMessageError("Invalid opcode, not a ping payload", message))
    ELSE IF compare(payload, message, 11) # 0
    THEN Rejected(InvalidMessageError(
             "Returned payload <received> did not match sent payload <sent>", message))
    ELSE Resolved(time)

----------------------------------------------------------------------------
(* The constructor, and the synchronous parts of #query and #sendPayload.  *)

DefaultAttempts == 1
DefaultTimeout == 5000

\* this.defaults = { attempts: defaultOptions.attempts ?? 1,
\*                   timeout: defaultOptions.timeout ?? 5_000 }
constructorDefaultsIgnored(defaultOptions) ==
    [attempts |-> Num(DefaultAttempts), timeout |-> Num(DefaultTimeout)]
constructorDefaults(defaultOptions) ==
    [attempts |-> Nullish(defaultOptions.attempts, Num(DefaultAttempts)),
     timeout |-> Nullish(defaultOptions.timeout, Num(DefaultTimeout))]

\* if (Number.isNaN(port) || port < 1 || port > 65535) throw new RangeError
PortMin == 1
PortMax == 65535
constructorThrows(p) ==
    \/ p.tag = "nan"
    \/ p.tag = "num" /\ p.h < 2 * PortMin
    \/ p.tag = "num" /\ p.h > 2 * PortMax

Methods(rev) ==
    IF rev = "index" THEN {"getInfo", "getRules", "ping"}
    ELSE {"getInfo", "getRules", "getClientList", "getDetailedClientList", "ping"}

\* ping: { ...options, attempts: 1 }
pingOptionsUnchanged(opts) == opts
pingOptions(opts) == [opts EXCEPT !.attempts = Num(1)]

\* #query between the DNS lookup and the loop: the resolved attempt count,
\* and whether the attempts check throws
queryAttempts(rev, opts, defs) ==
    IF rev = "index" THEN Nullish(opts.attempts, defs.attempts)
    ELSE MathTrunc(Nullish(opts.attempts, defs.attempts))

queryAttemptsCheckThrows(rev, n) == rev = "part_000" /\ LessThanOne(n)

\* #sendPayload after the race is won by a datagram: the header check
sendPayloadCheck(message, time) ==
    IF ~InBuffer(message, 0, 4) THEN Rejected(BufferRangeError)
    ELSE IF readUInt32BE(message) # << MagicHigh, MagicLow >>
    THEN Rejected(InvalidMessageError("Invalid header, expected 53414d50", message))
    ELSE Resolved([message |-> message, time |-> time])

\* #query's catch block.  Gives what the loop does next: retry, or throw
\* `error`; and the loop variables after it.
queryCatchRetryAll(rev, error, att, rem, errs) ==
    [retry |-> TRUE, error |-> NoError, attempts |-> att, remaining |-> rem,
     errors |-> errs]
queryCatchSingle(rev, error, att, rem, errs) ==
    IF error.kind # "TimeoutError"
    THEN [retry |-> FALSE, error |-> error, attempts |-> att, remaining |-> rem,
          errors |-> errs]
    ELSE IF rev = "index"
    THEN IF AtMostZero(Decrement(att))
         THEN [retry |-> FALSE, error |-> error, attempts |-> Decrement(att),
               remaining |-> rem, errors |-> Append(errs, error)]
         ELSE [retry |-> TRUE, error |-> NoError, attempts |-> Decrement(att),
               remaining |-> rem, errors |-> Append(errs, error)]
    ELSE IF AtMostZero(Decrement(rem))
         THEN [retry |-> FALSE, error |-> error, attempts |-> att,
               remaining |-> Decrement(rem), errors |-> errs]
         ELSE [retry |-> TRUE, error |-> NoError, attempts |-> att,
               remaining |-> Decrement(rem), errors |-> errs]
queryCatch(rev, error, att, rem, errs) ==
    IF error.kind # "TimeoutError"
    THEN [retry |-> FALSE, error |-> error, attempts |-> att, remaining |-> rem,
          errors |-> errs]
    ELSE IF rev = "index"
    THEN LET errs2 == Append(errs, error)
             att2 == Decrement(att)
         IN  IF AtMostZero(att2)
             THEN [retry |-> FALSE,
                   error |-> IF Len(errs2) > 1 THEN AggregateError(errs2) ELSE error,
                   attempts |-> att2, remaining |-> rem, errors |-> errs2]
             ELSE [retry |-> TRUE, error |-> NoError,
                   attempts |-> att2, remaining |-> rem, errors |-> errs2]
    ELSE LET rem2 == Decrement(rem)
         IN  IF AtMostZero(rem2)
             THEN [retry |-> FALSE,
                   error |-> IF MoreThanOne(att) THEN AttemptsTimeoutError(att)
                             ELSE error,
                   attempts |-> att, remaining |-> rem2, errors |-> errs]
             ELSE [retry |-> TRUE, error |-> NoError,
                   attempts |-> att, remaining |-> rem2, errors |-> errs]

\* The public method's code after `await this.#query(...)`
methodDecode(m, message, payload, time) ==
    CASE m = "getInfo" -> getInfoDecode(message)
      [] m = "getRules" -> getRulesDecode(message)
      [] m = "getClientList" -> getClientListDecode(message)
      [] m = "getDetailedClientList" -> getDetailedClientListDecode(message)
      [] m = "ping" -> pingDecode(message, payload, time)

----------------------------------------------------------------------------
(* The inputs: what callers pass and what the network delivers.            *)

Revisions == {"index", "part_000"}

\* attempts values a caller passes: absent, NaN, and -1, -0.5, 0, 0.5, 1,
\* 1.5, ... up to MaxAttempts
AttemptInputs == {Undefined, NaN} \cup {Half(h) : h \in -2 .. 2 * MaxAttempts}

\* attempts values given to the constructor
DefaultAttemptInputs == {Undefined, NaN, Num(0), Num(2)}

OptionInputs ==
    [attempts : AttemptInputs, timeout : {Undefined}]
    \cup [attempts : {Undefined, Num(2)}, timeout : {Num(2000)}]
DefaultOptionInputs ==
    [attempts : DefaultAttemptInputs, timeout : {Undefined}]
    \cup [attempts : {Undefined, Num(2)}, timeout : {Num(1000)}]

NoOptions == [attempts |-> Undefined, timeout |-> Undefined]

\* the hostname given to the constructor
Hostnames == {"my.server"}

\* port values given to the constructor: NaN, -1, 0, 0.5, 1, 80.5, 7777,
\* 65535, 65535.5, 65536
PortInputs ==
    {NaN, Num(-1), Num(0), Half(1), Num(PortMin), Half(161), Num(7777),
     Num(PortMax), Half(2 * PortMax + 1), Num(PortMax + 1)}

\* The arguments given to the constructor: every port with no options, and
\* every options object with port 7777
ConstructorInputs ==
    [address : Hostnames, port : PortInputs, defaultOptions : {NoOptions}]
    \cup [address : Hostnames, port : {Num(7777)},
          defaultOptions : DefaultOptionInputs]

\* The IPv4 addresses the lookup resolves to
Addresses == {<< 127, 0, 0, 1 >>, << 10, 0, 2, 200 >>}

\* What Crypto.randomBytes(4) returns
Nonces == {<< 0, 0, 0, 0 >>, << 1, 128, 255, 65 >>}

\* Date.now() differences between send and receipt
Times == {0, 7}

Magic == << 83, 65, 77, 80 >>
BadMagic == << 83, 65, 77, 81 >>

\* a response's bytes 4..9, which the client does not look at
Echo == << 127, 0, 0, 1, 97, 30 >>

\* 'x', the opcode of no request
UnknownOpcodes == {120}
Opcodes == {OpcodeI, OpcodeR, OpcodeC, OpcodeD, OpcodeP} \cup UnknownOpcodes

OpcodeOf(m) ==
    CASE m = "getInfo" -> OpcodeI
      [] m = "getRules" -> OpcodeR
      [] m = "getClientList" -> OpcodeC
      [] m = "getDetailedClientList" -> OpcodeD
      [] m = "ping" -> OpcodeP

\* little-endian encodings a server writes
LE16(n) == << n % 256, (n \div 256) % 256 >>
LE32(n) == << n % 256, (n \div 256) % 256, (n \div 65536) % 256, 0 >>

Str8(str) == << Len(str) >> \o str
Str32(str) == LE32(Len(str)) \o str

\* Well-formed payloads (the bytes from offset 11) of each kind
InfoPayloads ==
    { << 1 >> \o LE16(12) \o LE16(32) \o Str32(<< 84 >>) \o Str32(<< 68, 77 >>)
             \o Str32(<< 69 >>),
      << 0 >> \o LE16(0) \o LE16(300) \o Str32(<< >>) \o Str32(<< >>) \o Str32(<< >>) }

\* Rule lists a server answers with: << name, value >> pairs.  None, a=1,
\* a=1 a=2, a=1 b=
RulesLists ==
    { << >>,
      << << << 97 >>, << 49 >> >> >>,
      << << << 97 >>, << 49 >> >>, << << 97 >>, << 50 >> >> >>,
      << << << 97 >>, << 49 >> >>, << << 98 >>, << >> >> >> }

\* and one with a rule named __proto__
ProtoRulesLists == { << << ProtoName, << 49 >> >> >> }

\* the payload of a rules response: the count, then each name and value
RECURSIVE RulesEntries(_)
RulesEntries(es) ==
    IF es = << >> THEN << >>
    ELSE Str8(es[1][1]) \o Str8(es[1][2]) \o RulesEntries(Tail(es))
RulesPayloadOf(es) == LE16(Len(es)) \o RulesEntries(es)

RulesPayloads == { RulesPayloadOf(es) : es \in RulesLists }

ClientListPayloads ==
    { LE16(0),
      LE16(1) \o Str8(<< 97 >>) \o << 5, 0, 0, 0 >>,
      LE16(2) \o Str8(<< 97 >>) \o << 5, 0, 0, 0 >>
              \o Str8(<< >>) \o << 255, 255, 255, 255 >> }

DetailedClientListPayloads ==
    { LE16(0),
      LE16(1) \o << 3 >> \o Str8(<< 97 >>) \o << 5, 0, 0, 0 >> \o << 40, 0, 0, 0 >> }

PingPayloads == Nonces

WellFormed(m) ==
    CASE m = "getInfo" -> InfoPayloads
      [] m = "getRules" -> RulesPayloads
      [] m = "getClientList" -> ClientListPayloads
      [] m = "getDetailedClientList" -> DetailedClientListPayloads
      [] m = "ping" -> PingPayloads

\* Malformed payloads: a well-formed one cut short, with one byte changed,
\* or with a byte added
TamperBytes == {2, 255}

Prefixes(p) == { SubSeq(p, 1, n) : n \in 0 .. Len(p) }
Tampered(p) == { [p EXCEPT ![k] = b] : k \in 1 .. Len(p), b \in TamperBytes }
Extended(p) == { p \o << 0 >> }

Payloads(m) ==
    UNION { Prefixes(p) \cup Tampered(p) \cup Extended(p) : p \in WellFormed(m) }

\* The datagrams that can arrive in answer to a request of method m
Messages(m) ==
    { << >>, << 83, 65, 77 >>, Magic, Magic \o Echo }
    \cup { BadMagic \o Echo \o << o >> \o p : o \in {OpcodeOf(m)} \cup UnknownOpcodes,
                                               p \in WellFormed(m) }
    \cup { Magic \o Echo \o << o >> \o p : o \in Opcodes \ {OpcodeOf(m)},
                                            p \in WellFormed(m) }
    \cup { Magic \o Echo \o << OpcodeOf(m) >> \o p : p \in Payloads(m) }
    \cup { Magic \o Echo \o << OpcodeR >> \o RulesPayloadOf(es) :
               es \in IF m = "getRules" THEN ProtoRulesLists ELSE {} }

----------------------------------------------------------------------------
(* The request datagram #sendPayload builds.                               *)

\* Buffer.from(str, 'latin1'): each character's code, modulo 256
BufferFromLatin1(str) == [k \in 1 .. Len(str) |-> str[k] % 256]

\* IP.toLong("a.b.c.d"): the 32-bit number, kept as its two 16-bit halves
IPtoLong(addr) == << addr[1] * 256 + addr[2], addr[3] * 256 + addr[4] >>

\* buf.writeUInt32BE(value, offset), buf.writeUInt16LE(value, offset)
writeUInt32BE(buf, value, offset) ==
    [k \in 1 .. Len(buf) |->
        IF k = offset + 1 THEN value[1] \div 256
        ELSE IF k = offset + 2 THEN value[1] % 256
        ELSE IF k = offset + 3 THEN value[2] \div 256
        ELSE IF k = offset + 4 THEN value[2] % 256
        ELSE buf[k]]
writeUInt16BE(buf, value, offset) ==
    [k \in 1 .. Len(buf) |->
        IF k = offset + 1 THEN (value \div 256) % 256
        ELSE IF k = offset + 2 THEN value % 256
        ELSE buf[k]]
writeUInt16LE(buf, value, offset) ==
    [k \in 1 .. Len(buf) |->
        IF k = offset + 1 THEN value % 256
        ELSE IF k = offset + 2 THEN (value \div 256) % 256
        ELSE buf[k]]

\* The opcode string a public method gives #query: 'i', 'r', 'c', 'd', and
\* `p${payload.toString('latin1')}`
methodOpcode(m, payload) ==
    CASE m = "getInfo" -> << OpcodeI >>
      [] m = "getRules" -> << OpcodeR >>
      [] m = "getClientList" -> << OpcodeC >>
      [] m = "getDetailedClientList" -> << OpcodeD >>
      [] m = "ping" -> << OpcodeP >> \o toStringLatin1(payload, 0, Len(payload))

\* Buffer.from(`SAMP${"\0".repeat(6)}${opcode}`, 'latin1'), then the address
\* written at 4 and the port at 8
sendPayloadPayload(addr, prt, opcode) ==
    writeUInt16LE(
        writeUInt32BE(BufferFromLatin1(Magic \o << 0, 0, 0, 0, 0, 0 >> \o opcode),
                      IPtoLong(addr), 4),
        IntOf(prt), 8)

\* socket.send(payload, this.port, address)
DatagramUnresolved(addr, prt, payload) ==
    [to |-> << >>, port |-> prt, payload |-> payload]
Datagram(addr, prt, payload) == [to |-> addr, port |-> prt, payload |-> payload]

----------------------------------------------------------------------------
(* The state machine.                                                      *)

Event(ev, k) == [ev |-> ev, attempt |-> k]

\* The locals of a call not yet made
NoCall ==
    [method |-> "none", options |-> NoOptions, nonce |-> << >>, pc |-> "idle",
     address |-> << >>, attempts |-> Undefined, remaining |-> Undefined,
     errors |-> << >>, sockets |-> << >>, timers |-> << >>, events |-> << >>,
     outcomes |-> << >>, result |-> Pending]

Calls == {1, 2}

\* The state after `new SAMPQuery(address, a.port, a.defaultOptions)`
Constructed(a) ==
    /\ revision \in Revisions
    /\ args = a
    /\ thrown = IF constructorThrows(args.port) THEN PortRangeError ELSE NoError
    /\ hostname = args.address
    /\ port = IF constructorThrows(args.port) THEN Undefined ELSE args.port
    /\ defaults = IF constructorThrows(args.port) THEN NoOptions
                  ELSE constructorDefaults(args.defaultOptions)
    /\ method = "none"
    /\ callOptions = [attempts |-> Undefined, timeout |-> Undefined]
    /\ options = [attempts |-> Undefined, timeout |-> Undefined]
    /\ nonce = << >>
    /\ pc = "idle"
    /\ address = << >>
    /\ attempts = Undefined
    /\ remaining = Undefined
    /\ errors = << >>
    /\ socket = "none"
    /\ aborter = "none"
    /\ timerMs = Undefined
    /\ received = << >>
    /\ netlog = << >>
    /\ datagrams = << >>
    /\ unrecorded = 0
    /\ outcomes = << >>
    /\ result = Pending
    /\ calls = [c \in Calls |-> NoCall]
    /\ dropped = {}

Init == \E a \in ConstructorInputs : Constructed(a)

\* A public method up to its `await this.#query(opcode, queryOptions)`, and
\* #query up to its `await DNS.promises.lookup(...)`
\* (calls are made on a client the constructor returned; a client with a
\* fractional port is not called)
BeginQuery(m, opts, queryOptions, payload) ==
    /\ thrown = NoError
    /\ IsInteger(port)
    /\ m \in Methods(revision)
    /\ method' = m
    /\ callOptions' = opts
    /\ options' = queryOptions
    /\ nonce' = payload
    /\ netlog' = Append(netlog, Event("lookup", 0))
    /\ pc' = "lookup"
    /\ UNCHANGED << calls, dropped, revision, args, thrown, hostname, port, defaults, address, attempts,
                    remaining, errors, socket, aborter, timerMs, received,
                    datagrams, unrecorded, outcomes, result >>

getInfo(opts) ==
    /\ pc = "idle"
    /\ BeginQuery("getInfo", opts, opts, << >>)
getRules(opts) ==
    /\ pc = "idle"
    /\ BeginQuery("getRules", opts, opts, << >>)
getClientList(opts) ==
    /\ pc = "idle"
    /\ BeginQuery("getClientList", opts, opts, << >>)
getDetailedClientList(opts) ==
    /\ pc = "idle"
    /\ BeginQuery("getDetailedClientList", opts, opts, << >>)
ping(opts, payload) ==
    /\ pc = "idle"
    /\ BeginQuery("ping", opts, pingOptions(opts), payload)

\* #sendPayload up to its `await Promise.race(...)`: a new socket, the
\* datagram sent on it, the timer armed
sendPayloadBegin(addr, k) ==
    /\ socket' = "open"
    /\ aborter' = "armed"
    /\ timerMs' = Nullish(options.timeout, defaults.timeout)
    /\ netlog' = netlog \o << Event("open", k), Event("send", k) >>
    /\ datagrams' = Append(datagrams,
           Datagram(addr, port, sendPayloadPayload(addr, port,
                                                   methodOpcode(method, nonce))))
    /\ pc' = "race"

\* the same when an attempt has just ended: its finally block comes first
sendPayloadAgainOverlap(addr, k) ==
    /\ socket' = "open"
    /\ aborter' = "armed"
    /\ timerMs' = Nullish(options.timeout, defaults.timeout)
    /\ netlog' = netlog \o << Event("open", k), Event("send", k),
                              Event("abort", k - 1), Event("close", k - 1) >>
    /\ datagrams' = Append(datagrams,
           Datagram(addr, port, sendPayloadPayload(addr, port,
                                                   methodOpcode(method, nonce))))
    /\ pc' = "race"
sendPayloadAgain(addr, k) ==
    /\ socket' = "open"
    /\ aborter' = "armed"
    /\ timerMs' = Nullish(options.timeout, defaults.timeout)
    /\ netlog' = netlog \o << Event("abort", k - 1), Event("close", k - 1),
                              Event("open", k), Event("send", k) >>
    /\ datagrams' = Append(datagrams,
           Datagram(addr, port, sendPayloadPayload(addr, port,
                                                   methodOpcode(method, nonce))))
    /\ pc' = "race"

\* #sendPayload's finally block, when no attempt follows
sendPayloadNoFinally(k) ==
    /\ pc' = "done"
    /\ UNCHANGED << socket, aborter, netlog, timerMs, datagrams >>
sendPayloadFinally(k) ==
    /\ socket' = "closed"
    /\ aborter' = "aborted"
    /\ netlog' = netlog \o << Event("abort", k), Event("close", k) >>
    /\ pc' = "done"
    /\ UNCHANGED << timerMs, datagrams >>

\* The lookup resolves: #query computes the attempt count and enters the loop
LookupResolves(addr) ==
    /\ pc = "lookup"
    /\ address' = addr
    /\ attempts' = queryAttempts(revision, options, defaults)
    /\ IF queryAttemptsCheckThrows(revision, attempts')
       THEN /\ result' = Rejected(AttemptsRangeError)
            /\ pc' = "done"
            /\ UNCHANGED << remaining, socket, aborter, timerMs, netlog,
                            datagrams >>
       ELSE /\ remaining' = IF revision = "index" THEN remaining ELSE attempts'
            /\ sendPayloadBegin(addr, 1)
            /\ UNCHANGED result
    /\ UNCHANGED << calls, dropped, revision, args, thrown, hostname, port, defaults, method, callOptions,
                    options, nonce, errors, received, unrecorded, outcomes >>

\* The lookup fails: #query rejects with the resolver's error
LookupFails ==
    /\ pc = "lookup"
    /\ result' = Rejected(LookupError)
    /\ pc' = "done"
    /\ UNCHANGED << calls, dropped, revision, args, thrown, hostname, port, defaults, method, callOptions,
                    options, nonce, address, attempts, remaining, errors, socket,
                    aborter, timerMs, received, netlog, datagrams, unrecorded,
                    outcomes >>

\* An attempt's promise rejected with `error`: the finally block of
\* #sendPayload, then the catch block of #query, then either the next
\* attempt or the rejection of the call.  A retry of attempt MaxSends is
\* made like every other, but the logs keep the attempt they hold in its
\* place.
AttemptFails(error) ==
    LET k == Len(outcomes) + 1
        c == queryCatch(revision, error, attempts, remaining, errors)
    IN  /\ attempts' = c.attempts
        /\ remaining' = c.remaining
        /\ IF c.retry /\ k >= MaxSends
           THEN /\ unrecorded' = 1 - unrecorded
                /\ UNCHANGED << outcomes, errors, socket, aborter, timerMs, netlog,
                                datagrams, pc, result >>
           ELSE /\ outcomes' = Append(outcomes, error)
                /\ errors' = c.errors
                /\ UNCHANGED unrecorded
                /\ IF c.retry
                   THEN /\ sendPayloadAgain(address, k + 1)
                        /\ UNCHANGED result
                   ELSE /\ sendPayloadFinally(k)
                        /\ result' = Rejected(c.error)
        /\ UNCHANGED << calls, dropped, revision, args, thrown, hostname, port, defaults, method,
                        callOptions, options, nonce, address >>

\* The race is won by the 'message' event: the rest of #sendPayload, and on
\* its success the rest of #query and of the public method
sendPayloadResume(message, time) ==
    LET r == sendPayloadCheck(message, time)
    IN  /\ received' = Append(received, message)
        /\ IF r.status = "rejected"
           THEN AttemptFails(r.error)
           ELSE /\ outcomes' = Append(outcomes, Received(message))
                /\ sendPayloadFinally(Len(outcomes) + 1)
                /\ result' = methodDecode(method, r.value.message, nonce,
                                          r.value.time)
                /\ UNCHANGED << calls, dropped, revision, args, thrown, hostname, port, defaults, method,
                                callOptions, options, nonce, address, attempts,
                                remaining, errors, unrecorded >>

MessageArrivesOf(messages) ==
    /\ pc = "race"
    /\ \E message \in messages, time \in Times :
           sendPayloadResume(message, time)

MessageArrives == MessageArrivesOf(Messages(method))

\* The race is won by the timer
TimerFires ==
    /\ pc = "race"
    /\ AttemptFails(TimeoutError)
    /\ UNCHANGED received

\* The race is lost to the socket's 'error' event
SocketFails ==
    /\ pc = "race"
    /\ AttemptFails(SocketError)
    /\ UNCHANGED received

Next ==
    \/ \E opts \in OptionInputs : getInfo(opts)
    \/ \E opts \in OptionInputs : getRules(opts)
    \/ \E opts \in OptionInputs : getClientList(opts)
    \/ \E opts \in OptionInputs : getDetailedClientList(opts)
    \/ \E opts \in OptionInputs, payload \in Nonces : ping(opts, payload)
    \/ \E addr \in Addresses : LookupResolves(addr)
    \/ LookupFails
    \/ MessageArrives
    \/ TimerFires
    \/ SocketFails

Spec == Init /\ [][Next]_vars

----------------------------------------------------------------------------
(* The calls with every transport attempt ending: while an attempt is in   *)
(* flight, a datagram arrives, the timer fires or the socket fails.  The   *)
(* datagrams are a datagram too short for a header and the well-formed     *)
(* responses; the lookup gives one address.                                *)

FairAddresses == {<< 127, 0, 0, 1 >>}
FairMessages(m) ==
    { << >> }
    \cup { Magic \o Echo \o << OpcodeOf(m) >> \o p :
               p \in IF m = "ping" THEN {nonce} ELSE WellFormed(m) }

FairMessageArrives == MessageArrivesOf(FairMessages(method))

AttemptEnds == FairMessageArrives \/ TimerFires \/ SocketFails

NextFair ==
    \/ \E opts \in OptionInputs : getInfo(opts)
    \/ \E opts \in OptionInputs : getRules(opts)
    \/ \E opts \in OptionInputs : getClientList(opts)
    \/ \E opts \in OptionInputs : getDetailedClientList(opts)
    \/ \E opts \in OptionInputs, payload \in Nonces : ping(opts, payload)
    \/ \E addr \in FairAddresses : LookupResolves(addr)
    \/ LookupFails
    \/ FairMessageArrives
    \/ TimerFires
    \/ SocketFails

FairSpec == Init /\ [][NextFair]_vars /\ WF_vars(AttemptEnds)

----------------------------------------------------------------------------
(* The requests alone: the same client and calls with more ports,          *)
(* addresses and ping payloads, every attempt ending in a Timeout.         *)

RequestPorts == {Num(PortMin), Num(255), Num(256), Num(7777), Num(PortMax)}
RequestAddresses ==
    {<< 0, 0, 0, 0 >>, << 127, 0, 0, 1 >>, << 192, 168, 1, 10 >>,
     << 255, 255, 255, 255 >>}
RequestOptions == {[attempts |-> Num(2), timeout |-> Undefined]}

\* Crypto.randomBytes(4): payloads in which every byte value stands at
\* every one of the four places
RequestNonces ==
    { << b, 255 - b, (b + 128) % 256, (3 * b + 1) % 256 >> : b \in 0 .. 255 }

InitRequest ==
    \E a \in [address : Hostnames, port : RequestPorts,
               defaultOptions : {NoOptions}] : Constructed(a)

NextRequest ==
    \/ \E opts \in RequestOptions : getInfo(opts)
    \/ \E opts \in RequestOptions : getRules(opts)
    \/ \E opts \in RequestOptions : getClientList(opts)
    \/ \E opts \in RequestOptions : getDetailedClientList(opts)
    \/ \E opts \in RequestOptions, payload \in RequestNonces : ping(opts, payload)
    \/ \E addr \in RequestAddresses : LookupResolves(addr)
    \/ TimerFires

SpecRequest == InitRequest /\ [][NextRequest]_vars

----------------------------------------------------------------------------
(* Two calls on one client, interleaved.  The client's fields are shared;  *)
(* each call has the locals of its own activations of the public method,   *)
(* #query and #sendPayload: calls[c].  Every attempt creates its socket    *)
(* and its AbortController as locals of #sendPayload, so a socket is named *)
(* by the call and the attempt that created it: << c, k >>.                *)
(*   sockets[k]  "open" | "closed"                                         *)
(*   timers[k]   "armed" | "fired" | "cancelled"                           *)
(*   events      what the call's awaits were resumed with, in order        *)

oneVars == << revision, args, thrown, hostname, port, defaults, method, callOptions, options,
              nonce, pc, address, attempts, remaining, errors, socket, aborter,
              timerMs, received, netlog, datagrams, unrecorded, outcomes, result >>

TwoOptions == {NoOptions, [attempts |-> Num(2), timeout |-> Undefined]}
TwoNonces == {<< 1, 128, 255, 65 >>}
TwoTimes == {7}
TwoAddresses == {<< 127, 0, 0, 1 >>}

\* The datagrams that arrive: an empty one, a rules response, a ping response
TwoMessages ==
    { << >>,
      Magic \o Echo \o << OpcodeR >> \o RulesPayloadOf(<< << << 97 >>, << 49 >> >> >>) }
    \cup { Magic \o Echo \o << OpcodeP >> \o n : n \in TwoNonces }

CallEvent(ev, k, on, message, time) ==
    [ev |-> ev, attempt |-> k, on |-> on, message |-> message, time |-> time]

\* The calls whose attempt in flight is resumed by a datagram that arrives
\* on socket << c, k >>: Events.once(socket, 'message') listens on the
\* socket the same activation of #sendPayload created, until its finally
\* block aborts the listener and closes the socket.
ListenersAnyAttempt(cs, c, k) ==
    { d \in Calls : d = c /\ cs[d].pc = "race" }
Listeners(cs, c, k) ==
    { d \in Calls : d = c /\ cs[d].pc = "race" /\ k = Len(cs[d].sockets) }

\* The `errors` array (index) the catch block of call c pushes to: a local
\* of that call's #query
queryErrorsShared(cs, c) == cs[1].errors \o cs[2].errors
queryErrors(cs, c) == cs[c].errors

\* #sendPayload up to its await, and its finally block
sendPayloadOpens(call) ==
    [call EXCEPT !.sockets = Append(@, "open"),
                 !.timers = Append(@, "armed"),
                 !.pc = "race"]
sendPayloadCloses(call) ==
    LET k == Len(call.sockets)
    IN  [call EXCEPT !.sockets[k] = "closed",
                     !.timers[k] = IF @ = "armed" THEN "cancelled" ELSE @]

\* A public method up to the await of the lookup
CallBegins(c, m, opts, queryOptions, payload) ==
    /\ thrown = NoError
    /\ calls[c].pc = "idle"
    /\ m \in Methods(revision)
    /\ calls' = [calls EXCEPT ![c] = [@ EXCEPT !.method = m,
                                               !.options = queryOptions,
                                               !.nonce = payload,
                                               !.pc = "lookup"]]
    /\ UNCHANGED << dropped, oneVars >>

CallGetRules(c, opts) == CallBegins(c, "getRules", opts, opts, << >>)
CallPing(c, opts, payload) == CallBegins(c, "ping", opts, pingOptions(opts), payload)

CallLookupResolves(c, addr) ==
    LET call == calls[c]
        n == queryAttempts(revision, call.options, defaults)
        looked == [call EXCEPT !.address = addr,
                               !.attempts = n,
                               !.events = Append(@, CallEvent("lookup", 0, << >>,
                                                              << >>, 0))]
    IN  /\ call.pc = "lookup"
        /\ calls' = [calls EXCEPT ![c] =
               IF queryAttemptsCheckThrows(revision, n)
               THEN [looked EXCEPT !.pc = "done",
                                   !.result = Rejected(AttemptsRangeError)]
               ELSE sendPayloadOpens(
                        [looked EXCEPT !.remaining =
                                           IF revision = "index" THEN @ ELSE n])]
        /\ UNCHANGED << dropped, oneVars >>

CallLookupFails(c) ==
    /\ calls[c].pc = "lookup"
    /\ calls' = [calls EXCEPT ![c] =
           [@ EXCEPT !.events = Append(@, CallEvent("lookupFailed", 0, << >>,
                                                    << >>, 0)),
                     !.pc = "done",
                     !.result = Rejected(LookupError)]]
    /\ UNCHANGED << dropped, oneVars >>

\* The locals of call c after its attempt in flight was rejected with
\* `error`: the finally block, the catch block, and the next attempt or
\* the rejection of the call
CallAttemptFails(cs, c, error) ==
    LET call == cs[c]
        q == queryCatch(revision, error, call.attempts, call.remaining,
                        queryErrors(cs, c))
        closed == sendPayloadCloses(
                      [call EXCEPT !.outcomes = Append(@, error),
                                   !.attempts = q.attempts,
                                   !.remaining = q.remaining,
                                   !.errors = q.errors])
    IN  IF q.retry THEN sendPayloadOpens(closed)
        ELSE [closed EXCEPT !.pc = "done", !.result = Rejected(q.error)]

\* The locals of call d after its attempt in flight was resumed by a
\* datagram that arrived on socket `on`
CallResumes(cs, d, on, message, time) ==
    LET call == cs[d]
        k == Len(call.sockets)
        heard == [cs EXCEPT ![d].events =
                     Append(@, CallEvent("message", k, on, message, time))]
        r == sendPayloadCheck(message, time)
    IN  IF r.status = "rejected" THEN CallAttemptFails(heard, d, r.error)
        ELSE [sendPayloadCloses(heard[d]) EXCEPT
                 !.outcomes = Append(@, Received(message)),
                 !.pc = "done",
                 !.result = methodDecode(call.method, r.value.message, call.nonce,
                                         r.value.time)]

\* A datagram arrives on socket << c, k >>
CallDatagramArrives(c, k, message, time) ==
    /\ k \in 1 .. Len(calls[c].sockets)
    /\ IF Listeners(calls, c, k) = {}
       THEN /\ << c, k >> \notin dropped
            /\ dropped' = dropped \cup {<< c, k >>}
            /\ UNCHANGED calls
       ELSE /\ \E d \in Listeners(calls, c, k) :
                   calls' = [calls EXCEPT ![d] =
                                CallResumes(calls, d, << c, k >>, message, time)]
            /\ UNCHANGED dropped
    /\ UNCHANGED oneVars

\* The timer of attempt k of call c runs out
CallTimerFires(c, k) ==
    /\ k \in 1 .. Len(calls[c].timers)
    /\ calls[c].timers[k] = "armed"
    /\ LET fired == [calls EXCEPT ![c].timers[k] = "fired",
                                  ![c].events = Append(@, CallEvent("timer", k,
                                                        << >>, << >>, 0))]
       IN  calls' = [calls EXCEPT ![c] = CallAttemptFails(fired, c, TimeoutError)]
    /\ UNCHANGED << dropped, oneVars >>

\* The socket of the attempt in flight emits 'error'
CallSocketFails(c) ==
    /\ calls[c].pc = "race"
    /\ LET k == Len(calls[c].sockets)
           failed == [calls EXCEPT ![c].events =
                         Append(@, CallEvent("error", k, << >>, << >>, 0))]
       IN  calls' = [calls EXCEPT ![c] = CallAttemptFails(failed, c, SocketError)]
    /\ UNCHANGED << dropped, oneVars >>

InitTwo ==
    \E a \in [address : Hostnames, port : {Num(7777)},
               defaultOptions : {NoOptions}] : Constructed(a)

NextTwo ==
    \/ \E c \in Calls, opts \in TwoOptions : CallGetRules(c, opts)
    \/ \E c \in Calls, opts \in TwoOptions, payload \in TwoNonces :
           CallPing(c, opts, payload)
    \/ \E c \in Calls, addr \in TwoAddresses : CallLookupResolves(c, addr)
    \/ \E c \in Calls : CallLookupFails(c)
    \/ \E c \in Calls, k \in 1 .. MaxAttempts, message \in TwoMessages,
          time \in TwoTimes : CallDatagramArrives(c, k, message, time)
    \/ \E c \in Calls, k \in 1 .. MaxAttempts : CallTimerFires(c, k)
    \/ \E c \in Calls : CallSocketFails(c)

SpecTwo == InitTwo /\ [][NextTwo]_vars

----------------------------------------------------------------------------
(* Properties.                                                             *)

\* The attempt count the call resolves: the per-call option, else the
\* client's default
ResolvedAttempts == Nullish(options.attempts, defaults.attempts)

\* The transport attempts started so far, and the datagrams sent
Started == Cardinality({ k \in 1 .. Len(netlog) : netlog[k].ev = "open" })
Sent == Cardinality({ k \in 1 .. Len(netlog) : netlog[k].ev = "send" })

\* The attempts that ended in a Timeout
TimedOut == { k \in 1 .. Len(outcomes) : outcomes[k].kind = "TimeoutError" }

\* The Timeouts #query has recorded: the errors pushed (index), the
\* attempts counted down (part_000)
Recorded ==
    IF revision = "index" THEN Len(errors) ELSE IntOf(attempts) - IntOf(remaining)

\* C1: an attempt that ends with a failure other than a Timeout is the
\* call's last attempt: the call is rejected with that very error, and no
\* socket is opened and no datagram sent after it.
C1_NonTimeoutFailurePropagates ==
    \A k \in 1 .. Len(outcomes) :
        outcomes[k].kind \notin {"TimeoutError", "message"} =>
            /\ k = Len(outcomes)
            /\ pc = "done"
            /\ result = Rejected(outcomes[k])
            /\ Started = k
            /\ Sent = k
            /\ socket = "closed"

\* a header failure on the second attempt of three, and a socket error on
\* the first attempt of two
C1_Witness ==
    /\ pc = "done"
    /\ Len(outcomes) = 2
    /\ outcomes[2].kind = "InvalidMessageError"
    /\ ResolvedAttempts = Num(3)

\* C2: with a resolved attempt count N that is a positive integer, at most N
\* attempts are started; every attempt but the last ended in a Timeout; and
\* when all attempts timed out and the call has ended, there were exactly N.
C2_AttemptsBounded ==
    IsPositiveInteger(ResolvedAttempts) /\ pc \in {"race", "done"} =>
        LET N == IntOf(ResolvedAttempts)
        IN  /\ Started <= N
            /\ Started = Len(outcomes) + (IF pc = "race" THEN 1 ELSE 0)
            /\ \A k \in 1 .. Len(outcomes) - 1 : outcomes[k].kind = "TimeoutError"
            /\ (pc = "race" => TimedOut = 1 .. Len(outcomes))
            /\ (pc = "done" /\ Len(outcomes) > 0 /\ TimedOut = 1 .. Len(outcomes)) =>
                   /\ Len(outcomes) = N
                   /\ result.status = "rejected"
            /\ Cardinality(TimedOut) = N => pc = "done" /\ result.status = "rejected"

C2_Witness ==
    /\ pc = "done"
    /\ ResolvedAttempts = Num(3)
    /\ TimedOut = 1 .. 3
    /\ Started = 3

\* A response that is well-formed for method m and the payload sent
ValidResponses(m, payload) ==
    { Magic \o Echo \o << OpcodeOf(m) >> \o p :
          p \in IF m = "ping" THEN {payload} ELSE WellFormed(m) }

\* C3: with a resolved attempt count N that is a positive integer and k < N:
\* once the lookup has resolved, after k Timeouts and nothing else the call
\* is still running, with attempt k+1 in flight;
\* and when attempt k+1 then receives a valid response, the call resolves with
\* the decoding of that response, exactly k Timeouts are recorded, and no
\* attempt follows the successful one.
C3_SuccessAfterTimeouts ==
    IsPositiveInteger(ResolvedAttempts) =>
        LET N == IntOf(ResolvedAttempts)
            k == Cardinality(TimedOut)
        IN  /\ (pc \in {"race", "done"} /\ address # << >> /\ k < N
                   /\ Len(outcomes) = k) =>
                   /\ pc = "race"
                   /\ Started = k + 1
                   /\ Recorded = k
            /\ \A j \in 1 .. Len(outcomes) :
                   (outcomes[j].kind = "message"
                       /\ outcomes[j].response \in ValidResponses(method, nonce)) =>
                       /\ j = k + 1
                       /\ j = Len(outcomes)
                       /\ pc = "done"
                       /\ result.status = "resolved"
                       /\ \E time \in Times :
                              result = methodDecode(method, outcomes[j].response,
                                                    nonce, time)
                       /\ Recorded = k
                       /\ Started = j
                       /\ Sent = j
                       /\ socket = "closed"

\* the stated case: N = 3, two Timeouts, then a valid response
C3_Witness ==
    /\ ResolvedAttempts = Num(3)
    /\ Len(outcomes) = 3
    /\ TimedOut = {1, 2}
    /\ outcomes[3].kind = "message"
    /\ outcomes[3].response \in ValidResponses(method, nonce)
    /\ result.status = "resolved"
    /\ Recorded = 2

\* C4: a call that ends because every attempt timed out is rejected, with
\* attempt count 1, with the Timeout error of its one attempt; with attempt
\* count N > 1, with the aggregate error, which accounts for exactly N
\* Timeouts (index: an AggregateError holding the N per-attempt errors;
\* part_000: the TimeoutError "Query timed out after N attempts").
C4_ExhaustionError ==
    (/\ IsPositiveInteger(ResolvedAttempts)
     /\ pc = "done"
     /\ Len(outcomes) > 0
     /\ TimedOut = 1 .. Len(outcomes)) =>
        LET N == IntOf(ResolvedAttempts)
        IN  /\ result.status = "rejected"
            /\ N = 1 => result.error = TimeoutError
            /\ N > 1 =>
                   /\ result.error.text = "Query timed out after <count> attempts"
                   /\ result.error.count = N
                   /\ result.error.kind =
                          (IF revision = "index" THEN "AggregateError"
                           ELSE "TimeoutError")
                   /\ revision = "index" =>
                          /\ Len(result.error.errors) = N
                          /\ \A j \in 1 .. N : result.error.errors[j] = outcomes[j]

C4_Witness ==
    /\ pc = "done"
    /\ ResolvedAttempts = Num(3)
    /\ TimedOut = 1 .. 3
    /\ result.error.count = 3
    /\ revision = "index"

\* C6: a ping call whose lookup resolved has started exactly one transport
\* attempt, whatever attempts the caller passed and whatever the client's
\* default is; when that attempt times out the call is rejected with its
\* Timeout error and nothing more is sent.
C6_PingOneAttempt ==
    (method = "ping" /\ pc \in {"race", "done"} /\ address # << >>) =>
        /\ Started = 1
        /\ Sent = 1
        /\ Len(outcomes) <= 1
        /\ (Len(outcomes) = 1) = (pc = "done")
        /\ (Len(outcomes) = 1 /\ outcomes[1].kind = "TimeoutError") =>
               result = Rejected(TimeoutError)

\* the caller asks for 3 attempts, the client's default is 2, the one
\* attempt times out
C6_Witness ==
    /\ method = "ping"
    /\ callOptions.attempts = Num(3)
    /\ defaults.attempts = Num(2)
    /\ pc = "done"
    /\ TimedOut = {1}
    /\ result = Rejected(TimeoutError)

\* C5 (as claimed): a call whose resolved attempt count is not a positive
\* integer does no I/O at all (no lookup, no socket, no datagram) and ends
\* rejected with the RangeError of the attempts check.
C5_InvalidAttemptsNoNetwork ==
    (method # "none" /\ ~IsPositiveInteger(ResolvedAttempts)) =>
        /\ netlog = << >>
        /\ pc = "done" => result = Rejected(AttemptsRangeError)

\* The last datagram delivered, when there is one
LastReceived == received[Len(received)]
HasMagic(bytes) == Len(bytes) >= 4 /\ SubSeq(bytes, 1, 4) = Magic

\* C7 (as claimed): a received datagram whose first 4 bytes are not "SAMP",
\* also one shorter than 4 bytes, rejects the call with an
\* InvalidMessageError carrying the datagram, and no attempt follows.
C7_BadMagicIsMalformed ==
    (received # << >> /\ ~HasMagic(LastReceived)) =>
        /\ pc = "done"
        /\ result = Rejected(InvalidMessageError("Invalid header, expected 53414d50",
                                                 LastReceived))
        /\ Started = Len(outcomes)

\* The text of the error each method throws on a foreign opcode: it names
\* the payload kind the method expects
ExpectedOpcodeText(m) ==
    CASE m = "getInfo" -> "Invalid opcode, not an info payload"
      [] m = "getRules" -> "Invalid opcode, not a rules payload"
      [] m = "getClientList" -> "Invalid opcode, not a client list payload"
      [] m = "getDetailedClientList" ->
             "Invalid opcode, not a detailed client list payload"
      [] m = "ping" -> "Invalid opcode, not a ping payload"

\* C8: a received datagram with the magic tag whose byte at offset 10 is not
\* the opcode of the method called rejects the call with an
\* InvalidMessageError; its text names the payload kind expected and it
\* carries the datagram, whose byte 10 is the opcode received; nothing is
\* decoded.
C8_WrongOpcodeIsMalformed ==
    (/\ received # << >>
     /\ HasMagic(LastReceived)
     /\ Len(LastReceived) >= 11
     /\ LastReceived[11] # OpcodeOf(method)) =>
        /\ pc = "done"
        /\ result.status = "rejected"
        /\ result.value = << >>
        /\ result.error.kind = "InvalidMessageError"
        /\ result.error.text = ExpectedOpcodeText(method)
        /\ result.error.response = LastReceived
        /\ readUInt8(result.error.response, 10) # OpcodeOf(method)

\* a rules payload in answer to getInfo, and a detailed client list in
\* answer to getClientList
C8_Witness ==
    /\ method = "getClientList"
    /\ received # << >>
    /\ HasMagic(LastReceived)
    /\ Len(LastReceived) > 13
    /\ LastReceived[11] = OpcodeD
    /\ result.error.text = "Invalid opcode, not a client list payload"

\* Responses of the right opcode whose payload is a well-formed one cut
\* short: the count, a length or the bytes a length declares are missing
Truncated(m) ==
    UNION { { Magic \o Echo \o << OpcodeOf(m) >> \o q : q \in Prefixes(p) \ {p} } :
            p \in WellFormed(m) }

\* C9 (as claimed): a decoder given a payload whose declared count or
\* length points past the end of the buffer rejects the call with an
\* InvalidMessageError carrying the buffer.
C9_OverrunIsMalformed ==
    (/\ method \in {"getInfo", "getRules", "getClientList", "getDetailedClientList"}
     /\ received # << >>
     /\ LastReceived \in Truncated(method)) =>
        /\ result.status = "rejected"
        /\ result.error.kind = "InvalidMessageError"
        /\ result.error.response = LastReceived

\* A ping response with the magic tag and the opcode 'p'
PingAnswered ==
    /\ method = "ping"
    /\ received # << >>
    /\ HasMagic(LastReceived)
    /\ Len(LastReceived) >= 11
    /\ LastReceived[11] = OpcodeP

\* C10 (as claimed): ping resolves exactly when bytes 11..14 of the response
\* are the nonce sent, whatever follows them.
C10_PingEchoFourBytes ==
    PingAnswered =>
        ((result.status = "resolved") =
             (Len(LastReceived) >= 15 /\ SubSeq(LastReceived, 12, 15) = nonce))

\* C10 (amended): ping resolves, with the time measured, exactly when the
\* bytes of the response from offset 11 to its end are the nonce sent;
\* otherwise it is rejected with the InvalidMessageError that names the
\* returned and the sent payload and carries the response.
C10_PingEchoWholeRest ==
    PingAnswered =>
        LET rest == SubSeq(LastReceived, 12, Len(LastReceived))
        IN  /\ pc = "done"
            /\ rest = nonce => result.status = "resolved" /\ result.value \in Times
            /\ rest # nonce =>
                   result = Rejected(InvalidMessageError(
                       "Returned payload <received> did not match sent payload <sent>",
                       LastReceived))

\* the echo is right in bytes 11..14 and one more byte follows: rejected
C10_Witness ==
    /\ PingAnswered
    /\ Len(LastReceived) = 16
    /\ SubSeq(LastReceived, 12, 15) = nonce
    /\ result.status = "rejected"

----------------------------------------------------------------------------
(* The constructor's port check.                                           *)

\* C11 (as claimed): the constructor returns exactly when the port is an
\* integer from 1 to 65535; for every other port (below 1, above 65535, NaN,
\* a fraction such as 80.5) it throws a RangeError, and no query is made.
C11_PortValidated ==
    /\ (thrown = NoError) =
           (IsInteger(args.port) /\ args.port.h >= 2 * PortMin
                                 /\ args.port.h <= 2 * PortMax)
    /\ thrown # NoError =>
           thrown.kind = "RangeError" /\ pc = "idle" /\ netlog = << >>

----------------------------------------------------------------------------
(* The rules a response decodes to.                                        *)

\* the names of a rule list, and the value of the last rule with a name
RuleNames(es) == { es[i][1] : i \in 1 .. Len(es) }
LastValue(es, name) ==
    LET last == CHOOSE i \in 1 .. Len(es) :
                    /\ es[i][1] = name
                    /\ \A j \in (i + 1) .. Len(es) : es[j][1] # name
    IN  es[last][2]

\* C12 (as claimed): getRules given a well-formed response with N rules
\* resolves with a mapping of at most N names, none for N = 0, whose names
\* are exactly the names in the response, each with the value of its last
\* occurrence.
C12_RulesLastWins ==
    \A es \in RulesLists \cup ProtoRulesLists :
        (/\ method = "getRules"
         /\ received # << >>
         /\ LastReceived = Magic \o Echo \o << OpcodeR >> \o RulesPayloadOf(es)) =>
            /\ result.status = "resolved"
            /\ Cardinality(DOMAIN result.value) <= Len(es)
            /\ DOMAIN result.value = RuleNames(es)
            /\ \A name \in RuleNames(es) : result.value[name] = LastValue(es, name)

----------------------------------------------------------------------------
(* The options in effect.                                                  *)

\* the first of three values that is given
FirstGiven(perCall, perClient, builtIn) ==
    IF perCall.tag # "undefined" THEN perCall
    ELSE IF perClient.tag # "undefined" THEN perClient
    ELSE builtIn

\* the attempt count and the timeout the claim gives the call #query runs
EffectiveAttempts ==
    FirstGiven(options.attempts, args.defaultOptions.attempts, Num(DefaultAttempts))
EffectiveTimeout ==
    FirstGiven(options.timeout, args.defaultOptions.timeout, Num(DefaultTimeout))

\* the attempt count #query started with: `attempts` is counted down once
\* per recorded Timeout in index, and kept in part_000
InitialAttempts ==
    IF revision = "index" THEN
        IF attempts.tag = "num" THEN Half(attempts.h + 2 * Len(errors)) ELSE attempts
    ELSE attempts

\* C14: the attempt count #query starts with is its per-call attempts if
\* given, else the attempts given to the constructor, else 1 (for counts
\* that have no fraction); the delay of every attempt's timer is the
\* per-call timeout if given, else the timeout given to the constructor,
\* else 5000, the same for every attempt of the call.
C14_EffectiveOptions ==
    /\ (address # << >> /\ EffectiveAttempts.h % 2 = 0) =>
           InitialAttempts = EffectiveAttempts
    /\ pc = "race" => timerMs = EffectiveTimeout
    /\ (pc = "done" /\ Len(outcomes) > 0) => timerMs = EffectiveTimeout

\* the second attempt of a call that gave no options, on a client built
\* with attempts 2 and timeout 1000
C14_Witness ==
    /\ pc = "race"
    /\ Len(outcomes) = 1
    /\ callOptions = NoOptions
    /\ args.defaultOptions = [attempts |-> Num(2), timeout |-> Num(1000)]
    /\ timerMs = Num(1000)
    /\ InitialAttempts = Num(2)

----------------------------------------------------------------------------
(* Sockets and timers.                                                     *)

\* where in the I/O log the event `ev` of attempt k stands
Positions(ev, k) == { i \in 1 .. Len(netlog) : netlog[i] = Event(ev, k) }
Position(ev, k) == CHOOSE i \in Positions(ev, k) : TRUE

\* the sockets open after the first n events of the log
OpenAfter(n) ==
    Cardinality({ i \in 1 .. n : netlog[i].ev = "open" })
        - Cardinality({ i \in 1 .. n : netlog[i].ev = "close" })

\* C15: an attempt that has ended, however it ended, has had its timer
\* cancelled and its socket closed, once each and after the socket was
\* opened; when the call has ended no socket is open and no timer is armed.
C15_AttemptReleased ==
    /\ \A k \in 1 .. Len(outcomes) :
           /\ Cardinality(Positions("abort", k)) = 1
           /\ Cardinality(Positions("close", k)) = 1
           /\ Position("open", k) < Position("abort", k)
           /\ Position("abort", k) < Position("close", k)
    /\ pc = "done" =>
           /\ socket # "open"
           /\ aborter # "armed"
           /\ Started = Len(outcomes)
           /\ OpenAfter(Len(netlog)) = 0

\* a call that ended after a Timeout and then a datagram with a bad header
C15_Witness ==
    /\ pc = "done"
    /\ Len(outcomes) = 2
    /\ outcomes[1].kind = "TimeoutError"
    /\ outcomes[2].kind = "InvalidMessageError"
    /\ socket = "closed"
    /\ aborter = "aborted"

\* C16: attempt k opens one socket of its own and sends one datagram on it;
\* never are two sockets open; the socket of attempt k is closed before
\* the socket of attempt k + 1 is opened.
C16_OneSocketAtATime ==
    /\ \A k \in 1 .. Started :
           /\ Cardinality(Positions("open", k)) = 1
           /\ Cardinality(Positions("send", k)) = 1
           /\ Position("open", k) < Position("send", k)
           /\ k > 1 => /\ Positions("close", k - 1) # {}
                        /\ Position("close", k - 1) < Position("open", k)
    /\ Sent = Started
    /\ Len(datagrams) = Sent
    /\ \A n \in 0 .. Len(netlog) : OpenAfter(n) \in {0, 1}
    /\ (socket = "open") = (OpenAfter(Len(netlog)) = 1)

\* the third attempt of a call is in flight
C16_Witness ==
    /\ pc = "race"
    /\ Started = 3
    /\ Position("close", 2) < Position("open", 3)

----------------------------------------------------------------------------
(* The lookup.                                                             *)

\* C19: a call looks the hostname up once, before anything else it does on
\* the network; every datagram of the call goes to the one address the
\* lookup gave, which is also the address written into it; when the lookup
\* fails the call is rejected with the resolver's error without a socket,
\* a datagram or a second lookup.
C19_ResolvedOnce ==
    /\ pc # "idle" =>
           /\ Cardinality(Positions("lookup", 0)) = 1
           /\ netlog[1] = Event("lookup", 0)
    /\ pc = "lookup" => Len(netlog) = 1
    /\ \A i \in 1 .. Len(datagrams) :
           /\ address \in Addresses
           /\ datagrams[i].to = address
           /\ SubSeq(datagrams[i].payload, 5, 8) = address
    /\ (pc = "done" /\ address = << >>) =>
           /\ result = Rejected(LookupError)
           /\ netlog = << Event("lookup", 0) >>
           /\ datagrams = << >>
           /\ socket = "none"

\* two attempts made, both to the second address
C19_Witness ==
    /\ Len(datagrams) = 2
    /\ address = << 10, 0, 2, 200 >>
    /\ datagrams[1].to = address
    /\ datagrams[2].to = address

----------------------------------------------------------------------------
(* The request datagram.                                                   *)

\* C20: every datagram sent is "SAMP", the four bytes of the resolved
\* address from the most significant one, the port's low byte and then its
\* high byte, and the opcode character at byte 10; it is 11 bytes long for
\* i, r, c and d, and 15 bytes for ping, whose bytes 11 to 14 are the four
\* bytes of the payload drawn, whatever their values.
C20_RequestBytes ==
    \A i \in 1 .. Len(datagrams) :
        LET d == datagrams[i].payload
        IN  /\ SubSeq(d, 1, 4) = << 83, 65, 77, 80 >>
            /\ d[5] = address[1] /\ d[6] = address[2]
            /\ d[7] = address[3] /\ d[8] = address[4]
            /\ d[9] + 256 * d[10] = IntOf(port)
            /\ d[9] \in 0 .. 255 /\ d[10] \in 0 .. 255
            /\ d[11] = OpcodeOf(method)
            /\ Len(d) = IF method = "ping" THEN 15 ELSE 11
            /\ method = "ping" => SubSeq(d, 12, 15) = nonce

\* a ping from port 65535 to 192.168.1.10 whose payload starts with byte 255
C20_Witness ==
    /\ method = "ping"
    /\ Len(datagrams) = 1
    /\ port = Num(PortMax)
    /\ address = << 192, 168, 1, 10 >>
    /\ nonce[1] = 255
    /\ datagrams[1].payload[12] = 255

----------------------------------------------------------------------------
(* Termination.                                                            *)

\* C18 (as claimed): with every attempt ending, a call with an attempt in
\* flight ends, whatever attempt count it resolved.
C18_Terminates == (pc = "race") ~> (pc = "done")

----------------------------------------------------------------------------
(* Two calls at once.                                                      *)

\* What a call alone comes to, given what its awaits were resumed with:
\* #query's loop over the events of its attempts
RECURSIVE AloneLoop(_, _, _, _, _, _, _)
AloneLoop(rev, m, payload, evs, att, rem, errs) ==
    IF evs = << >> THEN Pending
    ELSE LET e == evs[1]
             r == IF e.ev = "message" THEN sendPayloadCheck(e.message, e.time)
                  ELSE IF e.ev = "timer" THEN Rejected(TimeoutError)
                  ELSE Rejected(SocketError)
         IN  IF r.status = "resolved"
             THEN methodDecode(m, r.value.message, payload, r.value.time)
             ELSE LET q == queryCatch(rev, r.error, att, rem, errs)
                  IN  IF q.retry
                      THEN AloneLoop(rev, m, payload, Tail(evs), q.attempts,
                                     q.remaining, q.errors)
                      ELSE Rejected(q.error)

Alone(rev, defs, m, opts, payload, evs) ==
    IF evs = << >> THEN Pending
    ELSE IF evs[1].ev = "lookupFailed" THEN Rejected(LookupError)
    ELSE LET n == queryAttempts(rev, opts, defs)
         IN  IF queryAttemptsCheckThrows(rev, n) THEN Rejected(AttemptsRangeError)
             ELSE AloneLoop(rev, m, payload, Tail(evs), n, n, << >>)

\* C13: with two calls on one client interleaved in any way, each call
\* comes to what it comes to alone given the events of its own lookup,
\* sockets and timers; a datagram is only ever given to the call on whose
\* socket it arrived; the client's address, port and defaults stay what
\* the constructor made them.
C13_CallsIndependent ==
    /\ \A c \in Calls :
           /\ calls[c].result =
                  Alone(revision, defaults, calls[c].method, calls[c].options,
                        calls[c].nonce, calls[c].events)
           /\ \A i \in 1 .. Len(calls[c].events) :
                  calls[c].events[i].ev = "message" => calls[c].events[i].on[1] = c
    /\ hostname = args.address
    /\ port = args.port
    /\ defaults = [attempts |-> Num(DefaultAttempts), timeout |-> Num(DefaultTimeout)]

\* call 1 has resolved on its second attempt while call 2, after a
\* Timeout of its own, has its second attempt in flight
C13_Witness ==
    /\ calls[1].result.status = "resolved"
    /\ Len(calls[1].outcomes) = 2
    /\ calls[2].pc = "race"
    /\ Len(calls[2].outcomes) = 1
    /\ calls[2].outcomes[1].kind = "TimeoutError"

----------------------------------------------------------------------------
(* The race of an attempt.                                                 *)

\* the events of attempt k of a call
Heard(call, k) ==
    { i \in 1 .. Len(call.events) :
          call.events[i].ev = "message" /\ call.events[i].attempt = k }
Fired(call, k) ==
    { i \in 1 .. Len(call.events) :
          call.events[i].ev = "timer" /\ call.events[i].attempt = k }

\* C17: an attempt is resumed at most once, by its datagram or by its
\* timer.  Resumed by a datagram, its timer is cancelled and never fires,
\* and the attempt is no Timeout.  Resumed by the timer, it is a Timeout
\* and its socket is closed: a datagram that reaches that socket later is
\* dropped, and no attempt, this one or a later one, is ever resumed with a
\* datagram from another socket than its own.
C17_RaceSettlesOnce ==
    /\ \A c \in Calls :
           LET call == calls[c]
           IN  /\ Len(call.outcomes) =
                      Cardinality({ k \in 1 .. Len(call.sockets) :
                                        call.sockets[k] = "closed" })
               /\ \A k \in 1 .. Len(call.sockets) :
                      /\ Cardinality(Heard(call, k)) + Cardinality(Fired(call, k)) <= 1
                      /\ Heard(call, k) # {} =>
                             /\ call.timers[k] = "cancelled"
                             /\ call.outcomes[k].kind # "TimeoutError"
                      /\ Fired(call, k) # {} =>
                             /\ call.timers[k] = "fired"
                             /\ call.sockets[k] = "closed"
                             /\ call.outcomes[k] = TimeoutError
                      /\ \A i \in Heard(call, k) : call.events[i].on = << c, k >>
    /\ \A s \in dropped : calls[s[1]].sockets[s[2]] = "closed"

\* the first attempt of a call ended in a Timeout, a datagram reached its
\* socket afterwards, and the second attempt was resumed by its own datagram
C17_Witness ==
    \E c \in Calls :
        /\ Len(calls[c].outcomes) = 2
        /\ calls[c].outcomes[1] = TimeoutError
        /\ << c, 1 >> \in dropped
        /\ Heard(calls[c], 2) # {}
        /\ calls[c].result.status = "resolved"

====
